---- MODULE Spec2Model ----
(***************************************************************************)
(* Model of the image build scripts of pterodactyl-files.                  *)
(*                                                                         *)
(*   Spec      docker/runtime/build.py : the threaded runner (run_tasks,   *)
(*             build_image / push_image / delete_image, signal_handler,    *)
(*             main).                                                       *)
(*   SpecMcdr  builder/runtime/minecraft/mcdr/build.py : the sequential    *)
(*             subprocess runner (cmd_build / cmd_push / cmd_delete).      *)
(***************************************************************************)
EXTENDS Integers, Sequences, FiniteSets, TLC

\* ------------------------------------------------------------------------
\* Bounds
\* ------------------------------------------------------------------------
NumJobs == 2        \* entries of config["build"] left after the tag filter
MaxWorkers == 2     \* largest max_parallel_tasks tried
MaxRetries == 2     \* largest max_retries tried

Jobs == 1..NumJobs
Verbs == {"build", "push", "delete"}

\* the configuration file: usable, missing or unreadable, without its
\* "build" list, without its "upload" section
Configs == {"ok", "unloadable", "no_build", "no_upload"}

\* the two threads running log_worker: the one started when the module is
\* loaded and the one started under __main__, which log_thread then names
LogThreads == {"import", "main_block"}

\* ------------------------------------------------------------------------
\* State of docker/runtime/build.py
\* ------------------------------------------------------------------------
VARIABLES
    action,          \* args.action
    max_workers,     \* config.get("max_parallel_tasks", 5)
    max_retries,     \* config.get("max_retries", 3)
    exists,          \* exists[j]: the docker daemon holds the image of job j
    existed,         \* exists as it was when the run began
    pc,              \* position of the main thread
    submitted,       \* number of futures created by the submit comprehension
    work_queue,      \* executor._work_queue: submitted work items, FIFO
    fstate,          \* state of the future of each job
    num_threads,     \* worker threads the executor has spawned
    idle_sem,        \* executor._idle_semaphore
    wjob,            \* wjob[w]: job the worker thread w is running, 0 if none
    jpc,             \* position of each job inside its function
    attempt,         \* loop variable of the retry loop of each job
    attempts,        \* collaborator calls each job has made
    fails,           \* collaborator calls of each job that raised
    slept,           \* time.sleep(retry_delay) calls each job has finished
    result,          \* value returned by the job's function
    error_summary,   \* the global list error_summary (job of each entry)
    yielded,         \* number of futures as_completed has handed over
    cancel_i,        \* index of the cancel loop over futures
    stop_event,      \* threading.Event stop_event
    sigint_count,    \* global sigint_count
    exited,          \* the process has terminated
    exitCode,        \* its exit status
    cfg,             \* what is wrong with the configuration, "ok" if nothing
    pending_exc,     \* exception future.result() raised in run_tasks
    printed,         \* what print_error_summary has written last
    log_none,        \* a None sentinel is on log_queue
    log_alive        \* the log_worker threads that have not returned

\* ------------------------------------------------------------------------
\* State of builder/runtime/minecraft/mcdr/build.py
\* ------------------------------------------------------------------------
VARIABLES
    m_command,       \* args.command
    m_push,          \* args.push
    m_pc,            \* "build" | "push" | "delete" | "done"
    m_idx,           \* index of the current Context of iterate_all()
    m_events,        \* docker subprocesses run so far, in order
    m_error,         \* "none" | "CalledProcessError" | "KeyboardInterrupt"
    m_exit           \* exit status, -1 while running

dvars == <<action, max_workers, max_retries, exists, existed, pc,
           submitted, work_queue, fstate, num_threads, idle_sem, wjob, jpc,
           attempt, attempts, fails, slept, result, error_summary, yielded,
           cancel_i, stop_event, sigint_count, exited, exitCode, cfg,
           pending_exc, printed, log_none, log_alive>>
mvars == <<m_command, m_push, m_pc, m_idx, m_events, m_error, m_exit>>
vars == <<dvars, mvars>>

\* ------------------------------------------------------------------------
\* The retry loop shared by build_image, push_image and delete_image
\* ------------------------------------------------------------------------
\* for attempt in range(max_retries): the body runs for this value of attempt
InRange(a, maxr) == a < maxr

RetryAgainNever(a, maxr) == FALSE
RetryAgainAlways(a, maxr) == a < maxr
\* if attempt < max_retries - 1: sleep and retry, else record and return False
RetryAgain(a, maxr) == a < maxr - 1

RaisesBeforeLoopNever(c, act) == FALSE
\* push_image reads config["upload"] ahead of its loop: KeyError when the
\* section is missing
RaisesBeforeLoop(c, act) == act = "push" /\ c = "no_upload"

\* the first line print_error_summary writes
ErrorSummaryText(es) ==
    IF es # <<>> THEN "Error Summary:"
    ELSE "No errors occurred during execution."

\* ------------------------------------------------------------------------
\* ThreadPoolExecutor(max_workers)
\* ------------------------------------------------------------------------
CanSpawnAlways(n, maxw) == TRUE
\* submit() starts a new worker thread only below max_workers
CanSpawn(n, maxw) == n < maxw

Running == {j \in Jobs : fstate[j] = "RUNNING"}
Pending == {j \in Jobs : fstate[j] \in {"UNSUBMITTED", "PENDING"}}
Done == {j \in Jobs : fstate[j] \in {"FINISHED", "CANCELLED"}}

\* ------------------------------------------------------------------------
\* iterate_all() of mcdr/build.py
\* ------------------------------------------------------------------------
Systems == <<"debian">>
Javas == <<7, 8, 11, 17, 21>>
McdrVersions == <<"latest", "2.12", "2.11", "2.10">>

\* the Contexts in the order the nested loops yield them
NumContexts == Len(Systems) * Len(Javas) * Len(McdrVersions)
Context(i) ==
    LET perSystem == Len(Javas) * Len(McdrVersions)
        s == ((i - 1) \div perSystem) + 1
        r == (i - 1) % perSystem
    IN  [system |-> Systems[s],
         java |-> Javas[(r \div Len(McdrVersions)) + 1],
         mcdr |-> McdrVersions[(r % Len(McdrVersions)) + 1]]

\* ------------------------------------------------------------------------
\* Initial states
\* ------------------------------------------------------------------------
DockerInit ==
    /\ action \in Verbs
    /\ max_workers \in 1..MaxWorkers
    /\ max_retries \in 0..MaxRetries
    /\ exists \in [Jobs -> BOOLEAN]
    /\ (action # "delete" => exists = [j \in Jobs |-> TRUE])
    /\ existed = exists
    /\ cfg \in Configs
    /\ (cfg = "no_upload" => action = "push")
    /\ pc = "start"
    /\ pending_exc = "none"
    /\ printed = "none"
    /\ log_none = FALSE
    /\ log_alive = LogThreads
    /\ submitted = 0
    /\ work_queue = <<>>
    /\ fstate = [j \in Jobs |-> "UNSUBMITTED"]
    /\ num_threads = 0
    /\ idle_sem = 0
    /\ wjob = [w \in Jobs |-> 0]
    /\ jpc = [j \in Jobs |-> "idle"]
    /\ attempt = [j \in Jobs |-> 0]
    /\ attempts = [j \in Jobs |-> 0]
    /\ fails = [j \in Jobs |-> 0]
    /\ slept = [j \in Jobs |-> 0]
    /\ result = [j \in Jobs |-> "unset"]
    /\ error_summary = <<>>
    /\ yielded = 0
    /\ cancel_i = 0
    /\ stop_event = FALSE
    /\ sigint_count = 0
    /\ exited = FALSE
    /\ exitCode = -1

\* the docker runner is not running
DockerOff ==
    /\ action = "build" /\ max_workers = 1 /\ max_retries = 0
    /\ exists = [j \in Jobs |-> TRUE] /\ existed = exists
    /\ pc = "off" /\ submitted = 0 /\ work_queue = <<>>
    /\ fstate = [j \in Jobs |-> "UNSUBMITTED"]
    /\ num_threads = 0 /\ idle_sem = 0 /\ wjob = [w \in Jobs |-> 0]
    /\ jpc = [j \in Jobs |-> "idle"] /\ attempt = [j \in Jobs |-> 0]
    /\ attempts = [j \in Jobs |-> 0] /\ fails = [j \in Jobs |-> 0]
    /\ slept = [j \in Jobs |-> 0] /\ result = [j \in Jobs |-> "unset"]
    /\ error_summary = <<>> /\ yielded = 0 /\ cancel_i = 0
    /\ stop_event = FALSE /\ sigint_count = 0
    /\ exited = FALSE /\ exitCode = -1
    /\ cfg = "ok" /\ pending_exc = "none" /\ printed = "none"
    /\ log_none = FALSE /\ log_alive = LogThreads

McdrInit ==
    /\ m_command \in Verbs
    /\ m_push \in BOOLEAN
    /\ (m_command # "build" => ~m_push)
    /\ m_pc = m_command
    /\ m_idx = 1
    /\ m_events = <<>>
    /\ m_error = "none"
    /\ m_exit = -1

\* the mcdr runner is not running
McdrOff ==
    /\ m_command = "build" /\ m_push = FALSE /\ m_pc = "off" /\ m_idx = 1
    /\ m_events = <<>> /\ m_error = "none" /\ m_exit = -1

Init == DockerInit /\ McdrOff
InitMcdr == McdrInit /\ DockerOff


\* ------------------------------------------------------------------------
\* docker/runtime/build.py : worker threads
\* ------------------------------------------------------------------------
cfgvars == <<action, max_workers, max_retries, existed, cfg>>
mainvars == <<pc, submitted, yielded, cancel_i>>
sigvars == <<stop_event, sigint_count, exited, exitCode>>
outvars == <<pending_exc, printed, log_none, log_alive>>
jobvars == <<exists, work_queue, num_threads, idle_sem, wjob, jpc, attempt,
             attempts, fails, slept, result, error_summary>>

\* worker threads are alike: the lowest idle one takes the next item
IdleThread == CHOOSE w \in 1..num_threads :
                 /\ wjob[w] = 0
                 /\ \A v \in 1..num_threads : wjob[v] = 0 => w <= v

\* main up to the with block of run_tasks.  Without a usable configuration
\* file main logs, calls cleanup_logging() and sys.exit(1).  config["build"]
\* in run_tasks, and config["upload"] in main when credentials are given on
\* the command line, raise KeyError on a missing section: nothing catches
\* it and the interpreter ends with status 1.  signal_handler is installed
\* once the configuration is loaded.
Start(cli_creds) ==
    /\ ~exited
    /\ pc = "start"
    /\ IF cfg = "unloadable"
         THEN /\ log_none' = TRUE
              /\ pc' = "join_log"
              /\ UNCHANGED <<exited, exitCode>>
         ELSE IF cfg = "no_build" \/ (RaisesBeforeLoop(cfg, action) /\ cli_creds)
           THEN /\ pc' = "crashed"
                /\ exited' = TRUE
                /\ exitCode' = 1
                /\ UNCHANGED log_none
           ELSE /\ pc' = "submit"
                /\ UNCHANGED <<log_none, exited, exitCode>>
    /\ UNCHANGED <<cfgvars, jobvars, submitted, yielded, cancel_i, fstate,
                   stop_event, sigint_count, pending_exc, printed, log_alive,
                   mvars>>

\* executor.submit(...) for the next entry of tasks
Submit ==
    /\ ~exited
    /\ pc = "submit"
    /\ submitted < NumJobs
    /\ LET j == submitted + 1 IN
        /\ fstate' = [fstate EXCEPT ![j] = "PENDING"]
        /\ work_queue' = Append(work_queue, j)
        /\ IF idle_sem > 0
             THEN idle_sem' = idle_sem - 1 /\ UNCHANGED num_threads
             ELSE /\ UNCHANGED idle_sem
                  /\ num_threads' = IF CanSpawn(num_threads, max_workers)
                                      THEN num_threads + 1 ELSE num_threads
        /\ submitted' = j
        /\ pc' = IF j = NumJobs THEN "as_completed" ELSE "submit"
    /\ UNCHANGED <<cfgvars, outvars, sigvars, exists, wjob, jpc, attempt, attempts,
                   fails, slept, result, error_summary, yielded, cancel_i,
                   mvars>>

\* a worker thread takes the next work item.  A cancelled item is dropped.
\* Any other starts the job's function, which runs up to its first
\* collaborator call, or returns None when range(max_retries) is empty, or
\* raises KeyError ahead of the loop (the future keeps the exception).
WorkerGet ==
    /\ ~exited
    /\ \E w \in 1..num_threads : wjob[w] = 0
    /\ work_queue # <<>>
    /\ LET j == Head(work_queue)
           w == IdleThread
       IN
        /\ work_queue' = Tail(work_queue)
        /\ attempt' = [attempt EXCEPT ![j] = 0]
        /\ IF fstate[j] = "CANCELLED"
             THEN /\ idle_sem' = idle_sem + 1
                  /\ UNCHANGED <<fstate, wjob, jpc, result>>
             ELSE IF RaisesBeforeLoop(cfg, action)
               THEN /\ fstate' = [fstate EXCEPT ![j] = "FINISHED"]
                    /\ jpc' = [jpc EXCEPT ![j] = "done"]
                    /\ result' = [result EXCEPT ![j] = "KeyError"]
                    /\ idle_sem' = idle_sem + 1
                    /\ UNCHANGED wjob
             ELSE IF InRange(0, max_retries)
               THEN /\ fstate' = [fstate EXCEPT ![j] = "RUNNING"]
                    /\ wjob' = [wjob EXCEPT ![w] = j]
                    /\ jpc' = [jpc EXCEPT ![j] = "call"]
                    /\ UNCHANGED <<idle_sem, result>>
               ELSE /\ fstate' = [fstate EXCEPT ![j] = "FINISHED"]
                    /\ jpc' = [jpc EXCEPT ![j] = "done"]
                    /\ result' = [result EXCEPT ![j] = "None"]
                    /\ idle_sem' = idle_sem + 1
                    /\ UNCHANGED wjob
    /\ UNCHANGED <<cfgvars, outvars, mainvars, sigvars, exists, num_threads, attempts,
                   fails, slept, error_summary, mvars>>

\* the function of job j returns r: the future finishes, the worker thread
\* goes back to the queue
Return(j, r) ==
    /\ result' = [result EXCEPT ![j] = r]
    /\ jpc' = [jpc EXCEPT ![j] = "done"]
    /\ fstate' = [fstate EXCEPT ![j] = "FINISHED"]
    /\ wjob' = [w \in Jobs |-> IF wjob[w] = j THEN 0 ELSE wjob[w]]
    /\ idle_sem' = idle_sem + 1

\* the try block runs to its end: return True.  client.images.remove only
\* succeeds on an image the daemon holds.
AttemptOk(j) ==
    /\ ~exited
    /\ jpc[j] = "call"
    /\ (action = "delete" => exists[j])
    /\ attempts' = [attempts EXCEPT ![j] = @ + 1]
    /\ exists' = IF action = "delete" THEN [exists EXCEPT ![j] = FALSE]
                 ELSE exists
    /\ Return(j, "True")
    /\ UNCHANGED <<cfgvars, outvars, mainvars, sigvars, work_queue, num_threads,
                   attempt, fails, slept, error_summary, mvars>>

\* the try block raises: sleep and retry, or record the error and return
\* False.  A delete may raise although the daemon has removed the image
\* (removed = TRUE): the reply is lost, or client.images.prune() raises.
AttemptFail(j, removed) ==
    /\ ~exited
    /\ jpc[j] = "call"
    /\ (removed => action = "delete" /\ exists[j])
    /\ attempts' = [attempts EXCEPT ![j] = @ + 1]
    /\ fails' = [fails EXCEPT ![j] = @ + 1]
    /\ exists' = IF removed THEN [exists EXCEPT ![j] = FALSE] ELSE exists
    /\ IF RetryAgain(attempt[j], max_retries)
         THEN /\ jpc' = [jpc EXCEPT ![j] = "sleep"]
              /\ UNCHANGED <<result, fstate, wjob, idle_sem, error_summary>>
         ELSE /\ error_summary' = Append(error_summary, j)
              /\ Return(j, "False")
    /\ UNCHANGED <<cfgvars, outvars, mainvars, sigvars, work_queue, num_threads,
                   attempt, slept, mvars>>

\* time.sleep(retry_delay) returns and the loop takes its next value: the
\* body runs again, or the function falls off its end and returns None
SleepDone(j) ==
    /\ ~exited
    /\ jpc[j] = "sleep"
    /\ slept' = [slept EXCEPT ![j] = @ + 1]
    /\ attempt' = [attempt EXCEPT ![j] = @ + 1]
    /\ IF InRange(attempt[j] + 1, max_retries)
         THEN /\ jpc' = [jpc EXCEPT ![j] = "call"]
              /\ UNCHANGED <<result, fstate, wjob, idle_sem>>
         ELSE Return(j, "None")
    /\ UNCHANGED <<cfgvars, outvars, mainvars, sigvars, exists, work_queue,
                   num_threads, attempts, fails, error_summary, mvars>>

\* ------------------------------------------------------------------------
\* docker/runtime/build.py : main thread
\* ------------------------------------------------------------------------
\* as_completed hands over one more future that is done; the loop body
\* tests stop_event and otherwise takes future.result(), which raises
\* again what the job's function raised (a KeyError is raised by every job
\* of the run or by none) and so leaves the with block
AsCompletedNext ==
    /\ ~exited
    /\ pc = "as_completed"
    /\ yielded < Cardinality(Done)
    /\ yielded' = yielded + 1
    /\ IF stop_event
         THEN pc' = "cancel" /\ cancel_i' = 1 /\ UNCHANGED pending_exc
         ELSE IF \E j \in Jobs : result[j] = "KeyError"
           THEN pc' = "join" /\ pending_exc' = "KeyError" /\ UNCHANGED cancel_i
           ELSE UNCHANGED <<pc, cancel_i, pending_exc>>
    /\ UNCHANGED <<cfgvars, sigvars, jobvars, submitted, fstate, printed,
                   log_none, log_alive, mvars>>

\* as_completed is exhausted: the for loop ends
AsCompletedEnd ==
    /\ ~exited
    /\ pc = "as_completed"
    /\ yielded = NumJobs
    /\ pc' = "join"
    /\ UNCHANGED <<cfgvars, outvars, sigvars, jobvars, submitted, fstate, yielded,
                   cancel_i, mvars>>

\* one f.cancel() of "for f in futures"; after the last one
\* executor.shutdown(wait=False) and break
CancelStep ==
    /\ ~exited
    /\ pc = "cancel"
    /\ fstate' = [fstate EXCEPT ![cancel_i] =
                    IF @ = "PENDING" THEN "CANCELLED" ELSE @]
    /\ IF cancel_i = NumJobs
         THEN pc' = "join" /\ UNCHANGED cancel_i
         ELSE cancel_i' = cancel_i + 1 /\ UNCHANGED pc
    /\ UNCHANGED <<cfgvars, outvars, sigvars, jobvars, submitted, yielded, mvars>>

JoinNoWait ==
    /\ ~exited
    /\ pc = "join"
    /\ IF pending_exc # "none"
         THEN pc' = "crashed" /\ exited' = TRUE /\ exitCode' = 1
         ELSE pc' = "post" /\ UNCHANGED <<exited, exitCode>>
    /\ UNCHANGED <<cfgvars, outvars, jobvars, submitted, fstate, yielded,
                   cancel_i, stop_event, sigint_count, mvars>>

\* leaving the with block: executor.shutdown(wait=True) joins the worker
\* threads, which leave only once the queue is drained.  An exception on
\* its way out of run_tasks is caught nowhere (main catches
\* KeyboardInterrupt only): the interpreter ends with status 1.
Join ==
    /\ ~exited
    /\ pc = "join"
    /\ work_queue = <<>>
    /\ \A w \in Jobs : wjob[w] = 0
    /\ IF pending_exc # "none"
         THEN pc' = "crashed" /\ exited' = TRUE /\ exitCode' = 1
         ELSE pc' = "post" /\ UNCHANGED <<exited, exitCode>>
    /\ UNCHANGED <<cfgvars, outvars, jobvars, submitted, fstate, yielded,
                   cancel_i, stop_event, sigint_count, mvars>>

\* main after run_tasks: "if stop_event.is_set()" chooses the 5 s sleep
Post ==
    /\ ~exited
    /\ pc = "post"
    /\ pc' = IF stop_event THEN "sleep5" ELSE "cleanup"
    /\ UNCHANGED <<cfgvars, outvars, sigvars, jobvars, submitted, fstate, yielded,
                   cancel_i, mvars>>

\* time.sleep(5) returns
Sleep5Done ==
    /\ ~exited
    /\ pc = "sleep5"
    /\ pc' = "cleanup"
    /\ UNCHANGED <<cfgvars, outvars, sigvars, jobvars, submitted, fstate, yielded,
                   cancel_i, mvars>>

\* print_error_summary(), then cleanup_logging() puts one None on
\* log_queue
Cleanup ==
    /\ ~exited
    /\ pc = "cleanup"
    /\ printed' = ErrorSummaryText(error_summary)
    /\ log_none' = TRUE
    /\ pc' = "join_log"
    /\ UNCHANGED <<cfgvars, sigvars, jobvars, submitted, fstate, yielded,
                   cancel_i, pending_exc, log_alive, mvars>>

\* a log_worker thread gets the None from log_queue and returns.  Both
\* threads block in log_queue.get(): either may be the one that gets it.
log_worker(t) ==
    /\ ~exited
    /\ t \in log_alive
    /\ log_none
    /\ log_none' = FALSE
    /\ log_alive' = log_alive \ {t}
    /\ UNCHANGED <<cfgvars, mainvars, sigvars, jobvars, fstate, pending_exc,
                   printed, mvars>>

\* log_thread.join() in cleanup_logging returns: log_thread is the thread
\* started under __main__
JoinLog ==
    /\ ~exited
    /\ pc = "join_log"
    /\ "main_block" \notin log_alive
    /\ pc' = "sysexit"
    /\ UNCHANGED <<cfgvars, outvars, sigvars, jobvars, submitted, fstate,
                   yielded, cancel_i, mvars>>

ExitStatusZero(count) == 0
\* the status main passes to sys.exit
ExitStatus(count) == IF count > 0 THEN 1 ELSE 0

\* sys.exit(1) after a configuration that could not be loaded, else
\* sys.exit by sigint_count

SysExit ==
    /\ ~exited
    /\ pc = "sysexit"
    /\ exited' = TRUE
    /\ exitCode' = IF cfg = "unloadable" THEN 1 ELSE ExitStatus(sigint_count)
    /\ pc' = "exited"
    /\ UNCHANGED <<cfgvars, outvars, jobvars, submitted, yielded, cancel_i, fstate,
                   stop_event,
                   sigint_count, mvars>>

\* ------------------------------------------------------------------------
\* docker/runtime/build.py : signal_handler
\* ------------------------------------------------------------------------
ForcedExitNever(count) == FALSE
\* every interrupt but the first ends the process at once (os._exit(1))
ForcedExit(count) == count # 1

StopEventAfterClear(count, ev) == count = 1
\* the first interrupt sets stop_event
StopEventAfter(count, ev) == IF count = 1 THEN TRUE ELSE ev

\* SIGINT once signal.signal has installed the handler (main does so after
\* it has loaded the configuration)
signal_handler ==
    /\ ~exited
    /\ pc \notin {"off", "start"}
    /\ cfg # "unloadable"
    /\ sigint_count' = sigint_count + 1
    /\ stop_event' = StopEventAfter(sigint_count', stop_event)
    /\ IF ForcedExit(sigint_count')
         THEN /\ printed' = ErrorSummaryText(error_summary)
              /\ exited' = TRUE /\ exitCode' = 1
         ELSE UNCHANGED <<printed, exited, exitCode>>
    /\ UNCHANGED <<cfgvars, mainvars, jobvars, fstate, pending_exc, log_none,
                   log_alive, mvars>>

Next ==
    \/ \E cli_creds \in BOOLEAN : Start(cli_creds)
    \/ Submit
    \/ WorkerGet
    \/ \E j \in Jobs : AttemptOk(j)
    \/ \E j \in Jobs, removed \in BOOLEAN : AttemptFail(j, removed)
    \/ \E j \in Jobs : SleepDone(j)
    \/ AsCompletedNext
    \/ AsCompletedEnd
    \/ CancelStep
    \/ Join
    \/ Post
    \/ Sleep5Done
    \/ Cleanup
    \/ \E t \in LogThreads : log_worker(t)
    \/ JoinLog
    \/ SysExit
    \/ signal_handler

Spec == Init /\ [][Next]_vars

\* ------------------------------------------------------------------------
\* builder/runtime/minecraft/mcdr/build.py
\* ------------------------------------------------------------------------
\* one docker subprocess run by subprocess.check_call
Event(cmd, i, ok) == [cmd |-> cmd, ctx |-> Context(i), idx |-> i, ok |-> ok]

\* the for loop over iterate_all() takes its next Context, or the command
\* function returns and the script ends with status 0
McdrAdvance(first) ==
    IF m_idx < NumContexts
      THEN m_idx' = m_idx + 1 /\ m_pc' = first /\ UNCHANGED <<m_error, m_exit>>
      ELSE m_pc' = "done" /\ m_exit' = 0 /\ UNCHANGED <<m_idx, m_error>>

\* check_call raises CalledProcessError: the __main__ block prints it and
\* the script ends normally
McdrRaise ==
    /\ m_error' = "CalledProcessError"
    /\ m_pc' = "done"
    /\ m_exit' = 0
    /\ UNCHANGED m_idx

McdrBuildPushAnyway(ok) ==
    /\ m_pc = "build"
    /\ m_events' = Append(m_events, Event("build", m_idx, ok))
    /\ IF m_push
         THEN m_pc' = "push" /\ UNCHANGED <<m_idx, m_error, m_exit>>
         ELSE McdrAdvance("build")
    /\ UNCHANGED <<m_command, m_push, dvars>>

\* cmd_build: subprocess.check_call(['docker', 'build', ...])
McdrBuild(ok) ==
    /\ m_pc = "build"
    /\ m_events' = Append(m_events, Event("build", m_idx, ok))
    /\ IF ~ok THEN McdrRaise
       ELSE IF m_push
         THEN m_pc' = "push" /\ UNCHANGED <<m_idx, m_error, m_exit>>
         ELSE McdrAdvance("build")
    /\ UNCHANGED <<m_command, m_push, dvars>>

\* cmd_build with --push, and cmd_push:
\* subprocess.check_call(['docker', 'push', ctx.tag])
McdrPush(ok) ==
    /\ m_pc = "push"
    /\ m_events' = Append(m_events, Event("push", m_idx, ok))
    /\ IF ~ok THEN McdrRaise ELSE McdrAdvance(m_command)
    /\ UNCHANGED <<m_command, m_push, dvars>>

\* cmd_delete: subprocess.check_call(['docker', 'image', 'rm', ctx.tag]);
\* docker image rm fails on an image that is absent
McdrDelete(present, ok) ==
    /\ m_pc = "delete"
    /\ (ok => present)
    /\ m_events' = Append(m_events,
                          [cmd |-> "rm", ctx |-> Context(m_idx),
                           idx |-> m_idx, ok |-> ok, present |-> present])
    /\ IF ~ok THEN McdrRaise ELSE McdrAdvance("delete")
    /\ UNCHANGED <<m_command, m_push, dvars>>

\* Ctrl-C: KeyboardInterrupt is caught by the __main__ block (pass)
McdrInterrupt ==
    /\ m_pc \in Verbs
    /\ m_error' = "KeyboardInterrupt"
    /\ m_pc' = "done"
    /\ m_exit' = 0
    /\ UNCHANGED <<m_command, m_push, m_idx, m_events, dvars>>

NextMcdr ==
    \/ \E ok \in BOOLEAN : McdrBuild(ok)
    \/ \E ok \in BOOLEAN : McdrPush(ok)
    \/ \E present, ok \in BOOLEAN : McdrDelete(present, ok)
    \/ McdrInterrupt

SpecMcdr == InitMcdr /\ [][NextMcdr]_vars

\* ------------------------------------------------------------------------
\* Claims
\* ------------------------------------------------------------------------
InSummary(j) == \E i \in 1..Len(error_summary) : error_summary[i] = j
NormalExit == exited /\ pc = "exited"

\* C1: once the first interrupt has set stop_event, no job that has not
\* started is started (a pending future only stays pending or becomes
\* cancelled), and when the run ends no job is left pending.
C1_NoStartAfterSoftStop ==
    [][/\ stop_event =>
            \A j \in Pending : fstate'[j] \notin {"RUNNING", "FINISHED"}
       /\ NormalExit' =>
            \A j \in Jobs : fstate'[j] \in {"FINISHED", "CANCELLED"}]_vars

\* C2: the exit status of a run with a usable configuration is non-zero
\* exactly when some job returned False (Failed) or the run was ended by the
\* second interrupt.
C2_ExitCodeIffFailedOrHardStop ==
    (exited /\ cfg = "ok") =>
        ((exitCode # 0) <=>
            ((\E j \in Jobs : result[j] = "False") \/ sigint_count >= 2))

\* C3: at most max_workers jobs are running at any moment, a running job
\* is held by exactly one worker thread and no job by two.
C3_BoundedConcurrency ==
    /\ Cardinality(Running) <= max_workers
    /\ \A j \in Jobs :
         Cardinality({w \in Jobs : wjob[w] = j}) =
            (IF fstate[j] = "RUNNING" THEN 1 ELSE 0)
C3_Witness ==
    /\ Cardinality(Running) = max_workers
    /\ \E j \in Jobs : fstate[j] = "PENDING"

\* C4: a failed job does not abort its siblings: when a run that was not
\* interrupted has ended, a docker command has been run for every Context.
C4_McdrSiblingsStillAttempted ==
    (m_pc = "done" /\ m_error # "KeyboardInterrupt") =>
        \A i \in 1..NumContexts :
            \E k \in 1..Len(m_events) : m_events[k].idx = i

\* C5: a delete job whose image was absent from the start makes no removal
\* attempt, does not end Failed and leaves no entry in the error summary.
C5_DeleteAbsentIsSkipped ==
    \A j \in Jobs :
        (action = "delete" /\ ~existed[j] /\ fstate[j] = "FINISHED") =>
            /\ attempts[j] = 0
            /\ result[j] # "False"
            /\ ~InSummary(j)

\* C6: in a build run with --push every push comes after every build.
C6_McdrPushesAfterAllBuilds ==
    (m_command = "build" /\ m_push) =>
        \A a, b \in 1..Len(m_events) :
            (m_events[a].cmd = "push" /\ m_events[b].cmd = "build") => b < a

C8_InFlightJobsRunToCompletion ==
    [][/\ (sigint_count = 1 /\ sigint_count' = 1) =>
            \A j \in Running :
                \/ /\ fstate'[j] = "RUNNING"
                   /\ attempts'[j] \in {attempts[j], attempts[j] + 1}
                   /\ attempts'[j] <= max_retries
                \/ /\ fstate'[j] = "FINISHED"
                   /\ result'[j] = "True"
                   /\ attempts'[j] = fails'[j] + 1
                \/ /\ fstate'[j] = "FINISHED"
                   /\ result'[j] = "False"
                   /\ attempts'[j] = max_retries
       /\ (exited' /\ sigint_count' = 1) => Running = {}]_vars
C8_Witness ==
    /\ sigint_count = 1 /\ ~exited
    /\ pc = "join"
    /\ cancel_i = NumJobs
    /\ \E j \in Jobs : jpc[j] = "sleep" /\ fails[j] = 1

\* C9: the cancellation state only moves forward, one level at a time:
\* sigint_count never decreases, stop_event is set exactly from the first
\* interrupt on and is never cleared, and the second interrupt is the
\* forced exit.
CancellationState ==
    IF sigint_count = 0 THEN 0 ELSE IF sigint_count = 1 THEN 1 ELSE 2
C9_CancellationMonotonic ==
    [][/\ CancellationState' \in {CancellationState, CancellationState + 1}
       /\ sigint_count' >= sigint_count
       /\ (stop_event => stop_event')
       /\ (stop_event' <=> sigint_count' >= 1)
       /\ (sigint_count' >= 2 <=>
             (exited' /\ pc' \notin {"exited", "crashed"}))]_vars
C9_Witness ==
    sigint_count = 2 /\ stop_event /\ exited /\ exitCode = 1

\* C10: a job that made calls and has finished after k < max_retries failed
\* calls ended Success after exactly k + 1 calls and has no entry in the
\* error summary; a job that returned True makes no further call.
C10_SuccessAfterKFailures ==
    [][\A j \in Jobs :
         /\ (/\ fstate'[j] = "FINISHED"
             /\ attempts'[j] >= 1
             /\ fails'[j] < max_retries') =>
               /\ result'[j] = "True"
               /\ attempts'[j] = fails'[j] + 1
               /\ \A i \in 1..Len(error_summary') : error_summary'[i] # j
         /\ (result[j] = "True" =>
               attempts'[j] = attempts[j] /\ result'[j] = "True")]_vars
C10_Witness ==
    \E j \in Jobs :
        /\ result[j] = "True" /\ fails[j] = 1 /\ attempts[j] = 2
        /\ ~InSummary(j)

\* C11: a job whose collaborator calls all fail ends Failed after exactly
\* max_retries calls: no job makes more than max_retries calls, a job that
\* returned False made max_retries calls and all of them failed, and (the
\* configuration being usable) a finished job none of whose calls got
\* through returned False.
C11_FailedAfterMaxRetries ==
    \A j \in Jobs :
        /\ attempts[j] <= max_retries
        /\ (result[j] = "False" =>
              attempts[j] = max_retries /\ fails[j] = max_retries)
        /\ (cfg = "ok" /\ fstate[j] = "FINISHED" /\ fails[j] = attempts[j] =>
              result[j] = "False" /\ attempts[j] = max_retries)

\* what became of job j: the value its function returned, or the
\* cancellation of its future
Outcome(j) ==
    IF fstate[j] = "CANCELLED" THEN "Cancelled"
    ELSE IF result[j] = "True" THEN "Success"
    ELSE IF result[j] = "False" THEN "Failed"
    ELSE "none"

\* the with block of run_tasks has been left
RunTasksReturned ==
    pc \notin {"off", "start", "submit", "as_completed", "cancel", "join"}

\* C12: every submitted job yields exactly one outcome, Success, Failed or
\* Cancelled: an outcome once reached never changes, when run_tasks has
\* returned every job that was submitted has one, and no job is entered
\* twice in the error summary.
C12_ExactlyOneOutcome ==
    [][\A j \in Jobs :
         /\ (Outcome(j) # "none" => Outcome(j)' = Outcome(j))
         /\ (RunTasksReturned' /\ fstate'[j] # "UNSUBMITTED" =>
               Outcome(j)' # "none")
         /\ Cardinality({i \in 1..Len(error_summary') :
                            error_summary'[i] = j}) <= 1]_vars

\* C13: a run that received an interrupt exits with status 1, after a soft
\* stop (also when every job that ran succeeded) and after a hard stop.
C13_InterruptedRunExitsOne ==
    (exited /\ sigint_count >= 1) => exitCode = 1
C13_Witness ==
    /\ NormalExit
    /\ sigint_count = 1
    /\ exitCode = 1
    /\ \A j \in Jobs : result[j] = "True"

\* C15: the build verb with --push pushes a tag only if that tag's build
\* succeeded: every docker push of a build run comes directly after a
\* docker build of the same Context that returned 0.
C15_McdrPushOnlyAfterOwnBuild ==
    m_command = "build" =>
        \A a \in 1..Len(m_events) :
            m_events[a].cmd = "push" =>
                /\ a > 1
                /\ m_events[a - 1].cmd = "build"
                /\ m_events[a - 1].idx = m_events[a].idx
                /\ m_events[a - 1].ok
C15_Witness ==
    /\ m_command = "build" /\ m_push
    /\ \E a \in 1..Len(m_events) : m_events[a].cmd = "push"
    /\ Len(m_events) > 0
    /\ m_events[Len(m_events)].cmd = "build"
    /\ ~m_events[Len(m_events)].ok
    /\ m_pc = "done"

\* C17: within one job a backoff sleep follows each failed call except the
\* last permitted one and never a successful call: a job sleeping has
\* just had a call fail and has a call left, each finished sleep is
\* followed by the next call, and a job that ended after a >= 1 calls has
\* slept exactly a - 1 times.
C17_SleepBetweenAttempts ==
    \A j \in Jobs :
        /\ (jpc[j] = "sleep" =>
              /\ fails[j] = attempts[j]
              /\ attempts[j] < max_retries
              /\ slept[j] = attempts[j] - 1)
        /\ (jpc[j] = "call" => slept[j] = attempts[j])
        /\ (fstate[j] = "FINISHED" /\ attempts[j] >= 1 =>
              slept[j] = attempts[j] - 1)
        /\ (result[j] = "True" => slept[j] = fails[j])
C17_Witness ==
    \E j, k \in Jobs :
        /\ result[j] = "False" /\ attempts[j] = 2 /\ slept[j] = 1
        /\ result[k] = "True" /\ attempts[k] = 2 /\ slept[k] = 1

\* C16: when run_tasks has detected the stop event and cancelled the
\* futures, it returns without waiting for the jobs that are still running:
\* with a job still running, leaving the with block is possible at once.
C16_StopReturnsWithoutWaiting ==
    (/\ ~exited /\ pc = "join" /\ stop_event /\ cancel_i = NumJobs
     /\ Running # {}) =>
        ENABLED Join

C18_CleanupJoinReturns ==
    (cfg = "ok" /\ ~exited /\ pc = "join_log") =>
        (log_none \/ "main_block" \notin log_alive)

\* C19: in a run without interrupt, when the error summary is printed it
\* holds exactly one entry for each job that did not return True and none
\* for a job that did, and "No errors occurred during execution." is
\* printed exactly when every job returned True.
C19_SummaryMatchesOutcomes ==
    (printed # "none" /\ sigint_count = 0) =>
        /\ \A j \in Jobs :
              Cardinality({i \in 1..Len(error_summary) :
                              error_summary[i] = j}) =
                 (IF result[j] = "True" THEN 0 ELSE 1)
        /\ (printed = "No errors occurred during execution." <=>
               \A j \in Jobs : result[j] = "True")

====
